---- MODULE Spec2Model ----
(***************************************************************************)
(* Model of nanobot's Claude Code OAuth provider:                          *)
(*   nanobot/providers/claude_code_auth.py     credential store + refresh  *)
(*   nanobot/providers/claude_code_provider.py chat() with one 401 retry   *)
(*                                                                         *)
(* Python values are modelled as follows.  A str is a TLA+ string, except  *)
(* where the code slices or splits it (the vendor error body, the scope    *)
(* string): there it is a sequence of one-character strings.  None (and an *)
(* absent dict key read with .get) is the sentinel of the field's type:    *)
(* NoneStr, NoneInt, NoneList.  A JSON document is kept parsed; "shape"    *)
(* says what json.loads makes of the stored text.                          *)
(***************************************************************************)
EXTENDS Integers, Sequences, FiniteSets, TLC

(***************************************************************************)
(* Program constants.                                                      *)
(***************************************************************************)
EXPIRY_BUFFER_MS == 300000
DefaultExpiresIn == 3600
MsPerSecond == 1000
ErrorBodyLimit == 500
HTTP_OK == 200
HTTP_UNAUTHORIZED == 401

(***************************************************************************)
(* Bounds of the model.                                                    *)
(***************************************************************************)
Now0 == 1000000          \* epoch ms of the first state
TickMs == 60000          \* the clock advances in steps of TickMs
MaxTicks == 1            \* number of clock steps
MaxIssued == 2           \* successful refresh responses the vendor issues
ShortExpiresIn == 60     \* an expires_in (seconds) shorter than the buffer
ServerErrorStatus == 500 \* a vendor status that is neither 200 nor 401

NoneStr == "None"
NoneInt == -1
NoneList == << <<>> >>

Truthy(s) == s # NoneStr /\ s # ""

Calls == {"c1", "c2"}
Standalone == {"r0", "r1"}
Sequential == {"r0"}
Resolvers == Calls \cup Standalone

(***************************************************************************)
(* Credential documents.                                                   *)
(***************************************************************************)
EmptyOauth ==
    [accessToken |-> NoneStr, refreshToken |-> NoneStr, expiresAt |-> NoneInt,
     scopes |-> NoneList, subscriptionType |-> NoneStr]

Oauth(access, refresh, exp) ==
    [accessToken |-> access, refreshToken |-> refresh, expiresAt |-> exp,
     scopes |-> << <<"u">> >>, subscriptionType |-> "max"]

Doc(oauth) == [shape |-> "dict", hasOauth |-> TRUE, oauth |-> oauth, extra |-> "x"]
NoOauthDoc == [shape |-> "dict", hasOauth |-> FALSE, oauth |-> EmptyOauth, extra |-> "x"]
Blank(shape) == [shape |-> shape, hasOauth |-> FALSE, oauth |-> EmptyOauth, extra |-> NoneStr]
NotFound == Blank("absent")
Unparseable == Blank("unparseable")
NotADict == Blank("notdict")
NoRead == Blank("noread")

AtBuffer == Now0 + EXPIRY_BUFFER_MS
JustValid == Now0 + EXPIRY_BUFFER_MS + 1
FarFuture == Now0 + 100 * EXPIRY_BUFFER_MS

InitialDocs ==
    { Doc(Oauth("T0", "R0", FarFuture)),
      Doc(Oauth("T0", "R0", JustValid)),
      Doc(Oauth("T0", "R0", AtBuffer)),
      Doc(Oauth("T0", "R0", NoneInt)),
      Doc(Oauth("T0", NoneStr, AtBuffer)),
      Doc(Oauth("T0", "", NoneInt)),
      Doc(Oauth(NoneStr, "R0", FarFuture)),
      Doc(Oauth(NoneStr, "R0", AtBuffer)),
      NoOauthDoc, NotFound, Unparseable, NotADict }

\* the documents a chat() re-resolution is run against
ChatDocs ==
    { Doc(Oauth("T0", "R0", FarFuture)),
      Doc(Oauth("T0", "R0", JustValid)),
      Doc(Oauth("T0", "R0", AtBuffer)),
      Doc(Oauth("T0", NoneStr, AtBuffer)),
      NotFound }

OtherStoreDoc == Doc(Oauth("TX", "RX", FarFuture))

Systems == {"Darwin", "Linux", "Other"}

\* get_claude_code_token: which store the platform reads
StorageType(sys) ==
    IF sys = "Darwin" THEN "keychain"
    ELSE IF sys \in {"Linux", "Windows"} THEN "file"
    ELSE "none"

\* _is_token_expired
IsTokenExpired_Inverted(expires_at, current_time_ms) ==
    IF expires_at = NoneInt THEN TRUE
    ELSE current_time_ms + EXPIRY_BUFFER_MS <= expires_at

IsTokenExpired(expires_at, current_time_ms) ==
    IF expires_at = NoneInt THEN TRUE
    ELSE current_time_ms + EXPIRY_BUFFER_MS >= expires_at

(***************************************************************************)
(* str.split(): the words of a string, split on runs of whitespace.        *)
(***************************************************************************)
IsSpace(ch) == ch \in {" ", "\t", "\n"}

RECURSIVE SplitFrom(_, _, _, _)
SplitFrom(s, i, word, acc) ==
    IF i > Len(s) THEN (IF word = <<>> THEN acc ELSE Append(acc, word))
    ELSE IF IsSpace(s[i])
         THEN SplitFrom(s, i + 1, <<>>, IF word = <<>> THEN acc ELSE Append(acc, word))
         ELSE SplitFrom(s, i + 1, Append(word, s[i]), acc)

Split(s) == SplitFrom(s, 1, <<>>, <<>>)

(***************************************************************************)
(* The refresh HTTP exchange.  A response body is the parsed JSON:         *)
(* t = "dict" a non-empty object, "empty" an empty object, "invalid" a     *)
(* body json() rejects.                                                    *)
(***************************************************************************)
TokenData(t, access, refresh, expires_in, hasScope, scope) ==
    [t |-> t, access_token |-> access, refresh_token |-> refresh,
     expires_in |-> expires_in, hasScope |-> hasScope, scope |-> scope]

NoTokenData == TokenData("none", NoneStr, NoneStr, NoneInt, FALSE, <<>>)

AccessTok(n) == "T" \o ToString(n)
RefreshTok(n) == "R" \o ToString(n)

\* what the token endpoint may answer to its n-th successful grant
GrantBodies(n) ==
    { TokenData("dict", AccessTok(n), RefreshTok(n), ShortExpiresIn, TRUE, <<"u", " ", "\t", "m">>),
      TokenData("dict", AccessTok(n), NoneStr, NoneInt, FALSE, <<>>) }

\* the JSON object a failed grant carries: none of the grant's keys
ErrorBody == TokenData("dict", NoneStr, NoneStr, NoneInt, FALSE, <<>>)

FailedExchanges ==
    { [kind |-> "transport", status |-> 0, body |-> NoTokenData],
      [kind |-> "http", status |-> ServerErrorStatus, body |-> ErrorBody],
      [kind |-> "http", status |-> HTTP_UNAUTHORIZED, body |-> ErrorBody],
      [kind |-> "http", status |-> HTTP_OK,
       body |-> TokenData("invalid", NoneStr, NoneStr, NoneInt, FALSE, <<>>)],
      [kind |-> "http", status |-> HTTP_OK,
       body |-> TokenData("empty", NoneStr, NoneStr, NoneInt, FALSE, <<>>)] }

GrantExchanges(n) ==
    { [kind |-> "http", status |-> HTTP_OK, body |-> b] : b \in GrantBodies(n) }

\* _refresh_token_with_httpx: the dict returned, or None
RefreshTokenWithHttpx_AnyStatus(exchange) ==
    IF exchange.kind = "transport" THEN NoTokenData
    ELSE IF exchange.body.t = "invalid" THEN NoTokenData
    ELSE exchange.body

RefreshTokenWithHttpx(exchange) ==
    IF exchange.kind = "transport" THEN NoTokenData
    ELSE IF exchange.status # HTTP_OK THEN NoTokenData
    ELSE IF exchange.body.t = "invalid" THEN NoTokenData
    ELSE exchange.body

\* `if new_token_data:`
HasTokenData(d) == d.t = "dict"

\* data.get("claudeAiOauth", {})
OauthOf(data) == IF data.hasOauth THEN data.oauth ELSE EmptyOauth

\* new_expires_at
NewExpiresAt_AtCheck(new_token_data, now_ms, check_ms) ==
    check_ms + (IF new_token_data.expires_in = NoneInt THEN DefaultExpiresIn
                ELSE new_token_data.expires_in) * MsPerSecond

NewExpiresAt(new_token_data, now_ms, check_ms) ==
    now_ms + (IF new_token_data.expires_in = NoneInt THEN DefaultExpiresIn
              ELSE new_token_data.expires_in) * MsPerSecond

\* _extract_token, lines 263-277: the document after a successful refresh
ApplyRefresh_ReplacesRecord(data, refresh_token, new_token_data, now_ms, check_ms) ==
    LET updated == [EmptyOauth EXCEPT
            !.accessToken = new_token_data.access_token,
            !.refreshToken = IF new_token_data.refresh_token = NoneStr
                             THEN refresh_token ELSE new_token_data.refresh_token,
            !.expiresAt = NewExpiresAt(new_token_data, now_ms, check_ms),
            !.scopes = IF new_token_data.hasScope
                       THEN Split(new_token_data.scope) ELSE NoneList]
    IN [data EXCEPT !.hasOauth = TRUE, !.oauth = updated]

ApplyRefresh(data, refresh_token, new_token_data, now_ms, check_ms) ==
    LET oauth == OauthOf(data)
        updated == [oauth EXCEPT
            !.accessToken = new_token_data.access_token,
            !.refreshToken = IF new_token_data.refresh_token = NoneStr
                             THEN refresh_token ELSE new_token_data.refresh_token,
            !.expiresAt = NewExpiresAt(new_token_data, now_ms, check_ms),
            !.scopes = IF new_token_data.hasScope
                       THEN Split(new_token_data.scope) ELSE oauth.scopes]
    IN [data EXCEPT !.hasOauth = TRUE, !.oauth = updated]

\* _extract_token, lines 251-259: what the expiry check decides
CheckExpiry_StaleWithoutRefresh(oauth, current_time_ms) ==
    IF ~IsTokenExpired(oauth.expiresAt, current_time_ms) THEN "valid"
    ELSE IF ~Truthy(oauth.refreshToken) THEN "valid"
    ELSE "refresh"

CheckExpiry(oauth, current_time_ms) ==
    IF ~IsTokenExpired(oauth.expiresAt, current_time_ms) THEN "valid"
    ELSE IF ~Truthy(oauth.refreshToken) THEN "unrefreshable"
    ELSE "refresh"

\* lines 285-296 after a refresh; the save's return value is not consulted
TokenAfterSave_FailOnWriteError(saved, new_access_token) ==
    IF saved /\ Truthy(new_access_token) THEN new_access_token ELSE NoneStr

TokenAfterSave(saved, new_access_token) ==
    IF Truthy(new_access_token) THEN new_access_token ELSE NoneStr

\* lines 291-296 when no refresh was needed
StoredToken_EmptyString(access_token) ==
    IF Truthy(access_token) THEN access_token ELSE ""

StoredToken(access_token) ==
    IF Truthy(access_token) THEN access_token ELSE NoneStr

\* _get_token_from_keychain lines 59-76, _get_token_from_credentials_file
\* lines 83-93: a failed read, no entry or no file is None; json.loads or
\* _extract_token raising on the content is caught and is None
ReadCredentials_Uncaught(content, readOk) ==
    IF ~readOk \/ content.shape = "absent" THEN "none"
    ELSE IF content.shape # "dict" THEN "raise"
    ELSE "extract"

ReadCredentials(content, readOk) ==
    IF ~readOk \/ content.shape = "absent" THEN "none"
    ELSE IF content.shape # "dict" THEN "none"
    ELSE "extract"

\* _extract_token, lines 280-283: where the refreshed document is saved
SaveTarget_AlwaysFile(storage_type) == "file"

SaveTarget(storage_type) ==
    IF storage_type = "keychain" THEN "keychain" ELSE "file"

(***************************************************************************)
(* Store writes.  Path.write_text opens the file for writing (truncating   *)
(* it) and then writes: it can fail before the open ("denied") or after    *)
(* the truncation ("truncated").  The keychain is written by two           *)
(* subprocesses: delete-generic-password, then add-generic-password.       *)
(***************************************************************************)
FileWriteOutcomes == {"ok", "denied", "truncated"}
DeleteOutcomes == {"deleted", "notdeleted", "timeout"}
AddOutcomes == {"ok", "fail", "timeout"}

\* _save_credentials_to_file
SaveCredentialsToFile(content, data, outcome) ==
    IF outcome = "ok" THEN [content |-> data, ok |-> TRUE]
    ELSE IF outcome = "denied" THEN [content |-> content, ok |-> FALSE]
    ELSE [content |-> Unparseable, ok |-> FALSE]

\* _save_credentials_to_keychain, lines 206-215: returncode is not checked
KeychainDelete(content, outcome) ==
    IF outcome = "deleted" THEN [content |-> NotFound, raised |-> FALSE]
    ELSE IF outcome = "notdeleted" THEN [content |-> content, raised |-> FALSE]
    ELSE [content |-> content, raised |-> TRUE]

\* _save_credentials_to_keychain, lines 218-240
KeychainAdd(content, data, outcome) ==
    IF outcome = "ok" THEN [content |-> data, ok |-> TRUE]
    ELSE [content |-> content, ok |-> FALSE]

(***************************************************************************)
(* State.                                                                  *)
(***************************************************************************)
VARIABLES
    system,       \* platform.system()
    keychain,     \* the macOS Keychain entry "Claude Code-credentials"
    credsFile,    \* ~/.claude/.credentials.json
    now,          \* time.time() in ms
    issued,       \* grants the token endpoint has answered with 200
    oauth_token,  \* ClaudeCodeProvider.oauth_token (and api_key)
    maxInFlight,  \* how many chat() invocations the caller keeps in flight
    res,          \* per resolution: the locals of get_claude_code_token
    call,         \* per chat() invocation: its locals and position
    last,         \* history: how the last get_claude_code_token() called
                  \* directly left the store
    translation   \* the translator function last applied, its input and output

vars == <<system, keychain, credsFile, now, issued, oauth_token, maxInFlight, res, call,
          last, translation>>

NoExchange == [kind |-> "none", status |-> 0, body |-> NoTokenData]

\* the resolution that returned last: whether its refresh was granted and
\* its save failed, the refresh token it had read, and what the store held
\* when it returned
NoLast == [failed |-> FALSE, rt |-> NoneStr, store |-> NoRead]

IdleRes ==
    [pc |-> "idle", storage |-> "none", orig |-> NoRead, data |-> NoRead,
     checkNow |-> NoneInt, rt |-> NoneStr, exchange |-> NoExchange,
     result |-> NoneStr, http |-> 0, writes |-> 0, saved |-> "n/a",
     before |-> NoRead, overlapped |-> FALSE]

StoreContent(st) ==
    IF st = "keychain" THEN keychain ELSE IF st = "file" THEN credsFile ELSE NotFound

\* A finished invocation hands its result to its caller before anything else
\* happens; the hand-over touches no shared state, so no interleaving is lost.
Settled ==
    /\ \A c \in Calls : call[c].pc \notin {"done", "raised"}
    /\ \A p \in Standalone : res[p].pc \notin {"done", "raised"}

\* a resolution runs on its own (r0, r1) or inside a chat() that got a 401;
\* of the standalone callers, which are alike, r0 is the one that starts
\* when neither is running
CanResolve_Serialized(p) ==
    IF p \in Standalone
    THEN \A q \in Standalone \ {p} : res[q].pc = "idle"
    ELSE call[p].pc = "resolving"

CanResolve(p) ==
    IF p \in Standalone
    THEN p = "r0" \/ res["r0"].pc # "idle"
    ELSE call[p].pc = "resolving"

\* history: another resolution that read the same document has its refresh
\* request in flight
RefreshInFlight(p, content) ==
    \E q \in Resolvers \ {p} : res[q].pc = "refreshing" /\ res[q].orig = content

\* get_claude_code_token .. _extract_token up to the refresh request
ResolveRead(p, readOk) ==
    /\ Settled
    /\ CanResolve(p)
    /\ res[p].pc = "idle"
    /\ LET st == StorageType(system)
           content == StoreContent(st)
           oauth == OauthOf(content)
           r == [res[p] EXCEPT !.storage = st]
           read == ReadCredentials(content, readOk)
       IN IF st = "none"
          THEN res' = [res EXCEPT ![p] = [r EXCEPT !.pc = "done"]]
          ELSE IF read = "none"
          THEN res' = [res EXCEPT ![p] =
                  [r EXCEPT !.pc = "done", !.orig = IF readOk THEN content ELSE NoRead]]
          ELSE IF read = "raise"
          THEN res' = [res EXCEPT ![p] = [r EXCEPT !.pc = "raised", !.orig = content]]
          ELSE LET r2 == [r EXCEPT !.orig = content, !.data = content, !.checkNow = now]
               IN IF CheckExpiry(oauth, now) = "valid"
                  THEN res' = [res EXCEPT ![p] =
                          [r2 EXCEPT !.pc = "done", !.result = StoredToken(oauth.accessToken)]]
                  ELSE IF CheckExpiry(oauth, now) = "unrefreshable"
                  THEN res' = [res EXCEPT ![p] = [r2 EXCEPT !.pc = "done"]]
                  ELSE res' = [res EXCEPT ![p] =
                          [r2 EXCEPT !.pc = "refreshing", !.rt = oauth.refreshToken,
                                     !.http = 1,
                                     !.overlapped = RefreshInFlight(p, content)]]
    /\ UNCHANGED <<translation, last, system, keychain, credsFile, now, issued, oauth_token, maxInFlight, call>>

Exchanges == FailedExchanges \cup (IF issued < MaxIssued THEN GrantExchanges(issued + 1) ELSE {})

\* the refresh response arrives and is not usable: lines 287-289
RefreshFails(p, exchange) ==
    /\ Settled
    /\ res[p].pc = "refreshing"
    /\ ~HasTokenData(RefreshTokenWithHttpx(exchange))
    /\ res' = [res EXCEPT ![p] = [@ EXCEPT !.pc = "done", !.exchange = exchange]]
    /\ UNCHANGED <<translation, last, system, keychain, credsFile, now, issued, oauth_token, maxInFlight, call>>

\* the refresh succeeds: lines 261-277, the document is updated in memory
RefreshGranted(p, exchange) ==
    /\ Settled
    /\ res[p].pc = "refreshing"
    /\ HasTokenData(RefreshTokenWithHttpx(exchange))
    /\ LET d == RefreshTokenWithHttpx(exchange)
           data == ApplyRefresh(res[p].data, res[p].rt, d, now, res[p].checkNow)
       IN res' = [res EXCEPT ![p] =
                [@ EXCEPT !.pc = "saving", !.exchange = exchange, !.data = data]]
    /\ issued' = issued + 1
    /\ UNCHANGED <<translation, last, system, keychain, credsFile, now, oauth_token, maxInFlight, call>>

\* lines 280-296 with _save_credentials_to_file
RefreshSavesFile(p, outcome) ==
    /\ Settled
    /\ res[p].pc = "saving"
    /\ SaveTarget(res[p].storage) = "file"
    /\ LET w == SaveCredentialsToFile(credsFile, res[p].data, outcome)
       IN /\ credsFile' = w.content
          /\ res' = [res EXCEPT ![p] =
                [@ EXCEPT !.pc = "done", !.before = credsFile, !.writes = 1,
                          !.saved = ToString(w.ok),
                          !.result = TokenAfterSave(w.ok, res[p].data.oauth.accessToken)]]
    /\ UNCHANGED <<translation, last, system, keychain, now, issued, oauth_token, maxInFlight, call>>

\* lines 280-281: the delete subprocess of _save_credentials_to_keychain
RefreshDeletesKeychain(p, outcome) ==
    /\ Settled
    /\ res[p].pc = "saving"
    /\ SaveTarget(res[p].storage) = "keychain"
    /\ LET w == KeychainDelete(keychain, outcome)
           r == [res[p] EXCEPT !.before = keychain, !.writes = 1]
       IN /\ keychain' = w.content
          /\ res' = [res EXCEPT ![p] =
                IF w.raised
                THEN [r EXCEPT !.pc = "done", !.saved = "FALSE",
                               !.result = TokenAfterSave(FALSE, res[p].data.oauth.accessToken)]
                ELSE [r EXCEPT !.pc = "adding"]]
    /\ UNCHANGED <<translation, last, system, credsFile, now, issued, oauth_token, maxInFlight, call>>

\* the add subprocess of _save_credentials_to_keychain, then lines 285-296
KeychainAdds(p, outcome) ==
    /\ Settled
    /\ res[p].pc = "adding"
    /\ LET w == KeychainAdd(keychain, res[p].data, outcome)
       IN /\ keychain' = w.content
          /\ res' = [res EXCEPT ![p] =
                [@ EXCEPT !.pc = "done", !.saved = ToString(w.ok),
                          !.result = TokenAfterSave(w.ok, res[p].data.oauth.accessToken)]]
    /\ UNCHANGED <<translation, last, system, credsFile, now, issued, oauth_token, maxInFlight, call>>

LastOf(p) ==
    IF res[p].pc = "done" /\ res[p].saved = "FALSE"
    THEN [failed |-> TRUE, rt |-> res[p].rt, store |-> StoreContent(res[p].storage)]
    ELSE NoLast

\* a standalone get_claude_code_token() returns to its caller
ResolveReturn(p) ==
    /\ p \in Standalone
    /\ res[p].pc \in {"done", "raised"}
    /\ res' = [res EXCEPT ![p] = IdleRes]
    /\ last' = LastOf(p)
    /\ UNCHANGED <<translation, system, keychain, credsFile, now, issued, oauth_token, maxInFlight, call>>

\* time passes
Tick ==
    /\ Settled
    /\ now < Now0 + MaxTicks * TickMs
    /\ now' = now + TickMs
    /\ UNCHANGED <<translation, last, system, keychain, credsFile, issued, oauth_token, maxInFlight, res, call>>

(***************************************************************************)
(* Protocol translation (claude_code_provider.py).  A generic message is   *)
(* [role, content, tool_call_id, tool_calls]; a value is [t, v] with t its *)
(* Python type ("missing" for an absent key) and v its text.               *)
(***************************************************************************)
CLAUDE_CODE_SYSTEM_PREFIX == "You are Claude Code, Anthropic's official CLI for Claude."

Val(t, v) == [t |-> t, v |-> v]
Str(v) == Val("str", v)
Missing == Val("missing", "")

Msg(role, content) ==
    [role |-> role, content |-> content, tool_call_id |-> Missing, tool_calls |-> <<>>]
ToolMsg(id, content) ==
    [role |-> "tool", content |-> content, tool_call_id |-> id, tool_calls |-> <<>>]
AssistantMsg(content, tool_calls) ==
    [role |-> "assistant", content |-> content, tool_call_id |-> Missing,
     tool_calls |-> tool_calls]
ToolCall(id, name, arguments) == [id |-> id, name |-> name, arguments |-> arguments]

\* _TOOL_NAME_TO_API.get(name, name)
ToolNameToApi(name) == IF name = "read_file" THEN "ReadFile" ELSE name
\* _TOOL_NAME_FROM_API.get(api_name, api_name)
ToolNameFromApi(api_name) == IF api_name = "ReadFile" THEN "read_file" ELSE api_name

\* json.loads on the argument strings the model uses
JsonLoads(text) ==
    CASE text = "{\"x\":1}" -> [ok |-> TRUE, value |-> Val("obj", "{\"x\":1}")]
      [] text = "{}" -> [ok |-> TRUE, value |-> Val("obj", "{}")]
      [] text = "123" -> [ok |-> TRUE, value |-> Val("num", "123")]
      [] text = "[1]" -> [ok |-> TRUE, value |-> Val("list", "[1]")]
      [] text = "null" -> [ok |-> TRUE, value |-> Val("null", "null")]
      [] OTHER -> [ok |-> FALSE, value |-> Missing]

\* {"raw": args}
RawObject(text) == [t |-> "obj", v |-> "{\"raw\":" \o text \o "}"]

\* lines 177-182
ToolUseInput(args) ==
    IF args.t = "str"
    THEN (IF JsonLoads(args.v).ok THEN JsonLoads(args.v).value ELSE RawObject(args.v))
    ELSE args

Block(type, text, id, name, input, content) ==
    [type |-> type, text |-> text, id |-> id, name |-> name, input |-> input,
     content |-> content]
TextBlock(text) == Block("text", text, "", "", Missing, Missing)
ToolUseBlock(id, name, input) == Block("tool_use", Missing, id, name, input, Missing)
ToolResultBlock(id, content) == Block("tool_result", Missing, id, "", Missing, content)

WireMsg(role, content, blocks) == [role |-> role, content |-> content, blocks |-> blocks]

\* dict.get(key, "") on a value that may be absent
GetOrEmpty(v) == IF v.t = "missing" THEN Str("") ELSE v

\* `if msg.get("content")`
ContentTruthy(c) == c.t # "missing" /\ c.t # "none" /\ ~(c.t = "str" /\ c.v = "")

RECURSIVE ToolUseBlocks(_, _)
ToolUseBlocks(tool_calls, i) ==
    IF i > Len(tool_calls) THEN <<>>
    ELSE <<ToolUseBlock(tool_calls[i].id, ToolNameToApi(tool_calls[i].name),
                        ToolUseInput(tool_calls[i].arguments))>>
         \o ToolUseBlocks(tool_calls, i + 1)

\* _convert_assistant_msg
ConvertAssistantMsg(msg) ==
    LET content_blocks ==
            (IF ContentTruthy(msg.content) THEN <<TextBlock(msg.content)>> ELSE <<>>)
            \o ToolUseBlocks(msg.tool_calls, 1)
    IN IF content_blocks # <<>>
       THEN WireMsg("assistant", Val("blocks", ""), content_blocks)
       ELSE WireMsg("assistant", GetOrEmpty(msg.content), <<>>)

\* the loop of _build_body, lines 122-147; raised: a KeyError left the loop
RECURSIVE BuildLoop(_, _, _, _)
BuildLoop(messages, i, system_parts, anthropic_messages) ==
    IF i > Len(messages)
    THEN [raised |-> FALSE, system_parts |-> system_parts, messages |-> anthropic_messages]
    ELSE LET msg == messages[i]
             KeyError == [raised |-> TRUE, system_parts |-> system_parts,
                          messages |-> anthropic_messages]
         IN IF msg.role = "missing" THEN KeyError
            ELSE IF msg.role = "system"
            THEN (IF msg.content.t = "missing" THEN KeyError
                  ELSE BuildLoop(messages, i + 1,
                         IF msg.content.t = "str" THEN Append(system_parts, msg.content.v)
                         ELSE system_parts,
                         anthropic_messages))
            ELSE IF msg.role = "tool"
            THEN BuildLoop(messages, i + 1, system_parts,
                   Append(anthropic_messages,
                     WireMsg("user", Val("blocks", ""),
                       <<ToolResultBlock(GetOrEmpty(msg.tool_call_id).v,
                                         GetOrEmpty(msg.content))>>)))
            ELSE IF msg.role = "assistant"
            THEN BuildLoop(messages, i + 1, system_parts,
                   Append(anthropic_messages, ConvertAssistantMsg(msg)))
            ELSE IF msg.content.t = "missing" THEN KeyError
            ELSE BuildLoop(messages, i + 1, system_parts,
                   Append(anthropic_messages, WireMsg("user", msg.content, <<>>)))

Tool(name, description, parameters) ==
    [name |-> name, description |-> description, parameters |-> parameters]

\* _convert_tools; raised: func["name"] is absent
RECURSIVE ConvertTools(_, _)
ConvertTools(tools, i) ==
    IF i > Len(tools) THEN [raised |-> FALSE, tools |-> <<>>]
    ELSE IF tools[i].name.t = "missing" THEN [raised |-> TRUE, tools |-> <<>>]
    ELSE LET rest == ConvertTools(tools, i + 1)
         IN [raised |-> rest.raised,
             tools |-> <<[name |-> ToolNameToApi(tools[i].name.v),
                          description |-> GetOrEmpty(tools[i].description),
                          input_schema |-> IF tools[i].parameters.t = "missing"
                                           THEN Val("obj", "{}")
                                           ELSE tools[i].parameters]>> \o rest.tools]

\* _build_body
BuildBody(messages, tools, model, max_tokens, temperature) ==
    LET loop == BuildLoop(messages, 1, <<CLAUDE_CODE_SYSTEM_PREFIX>>, <<>>)
        converted == IF tools # <<>> THEN ConvertTools(tools, 1)
                     ELSE [raised |-> FALSE, tools |-> <<>>]
    IN [raised |-> loop.raised \/ converted.raised,
        model |-> model, max_tokens |-> max_tokens, temperature |-> temperature,
        system |-> [k \in 1..Len(loop.system_parts) |-> TextBlock(Str(loop.system_parts[k]))],
        messages |-> loop.messages,
        hasTools |-> tools # <<>>,
        tools |-> converted.tools]

\* model.split("/", 1)[1] when "/" in model; a model name is a sequence of characters
RECURSIVE AfterSlash(_, _)
AfterSlash(model, i) ==
    IF i > Len(model) THEN model
    ELSE IF model[i] = "/" THEN SubSeq(model, i + 1, Len(model))
    ELSE AfterSlash(model, i + 1)

StripProvider(model) == AfterSlash(model, 1)

\* __init__, lines 42-45
DefaultModel == StripProvider(<<"a", "/", "s">>)

\* chat, lines 79-82
ResolveModel(model) == StripProvider(IF model = <<>> THEN DefaultModel ELSE model)

(***************************************************************************)
(* _parse_response.  A wire response is [t, content, stop_reason, usage].  *)
(***************************************************************************)
WireResponse(content, stop_reason, hasUsage, input_tokens, output_tokens) ==
    [t |-> "dict", content |-> content, stop_reason |-> stop_reason,
     hasUsage |-> hasUsage, input_tokens |-> input_tokens,
     output_tokens |-> output_tokens]

RECURSIVE JoinLines(_, _)
JoinLines(texts, i) ==
    IF i > Len(texts) THEN ""
    ELSE IF i = Len(texts) THEN texts[i]
    ELSE texts[i] \o "\n" \o JoinLines(texts, i + 1)

RECURSIVE TextsOf(_, _)
TextsOf(blocks, i) ==
    IF i > Len(blocks) THEN <<>>
    ELSE (IF blocks[i].type = "text" THEN <<blocks[i].text.v>> ELSE <<>>)
         \o TextsOf(blocks, i + 1)

RECURSIVE ToolCallsOf(_, _)
ToolCallsOf(blocks, i) ==
    IF i > Len(blocks) THEN <<>>
    ELSE (IF blocks[i].type = "tool_use"
          THEN <<ToolCall(blocks[i].id, ToolNameFromApi(blocks[i].name),
                          IF blocks[i].input.t = "missing" THEN Val("obj", "{}")
                          ELSE blocks[i].input)>>
          ELSE <<>>)
         \o ToolCallsOf(blocks, i + 1)

\* finish_map.get(data.get("stop_reason", "end_turn"), "stop")
FinishReason_Passthrough(stop_reason) ==
    LET sr == IF stop_reason = NoneStr THEN "end_turn" ELSE stop_reason
    IN IF sr = "end_turn" THEN "stop"
       ELSE IF sr = "tool_use" THEN "tool_calls"
       ELSE IF sr = "max_tokens" THEN "length"
       ELSE sr

FinishReason(stop_reason) ==
    LET sr == IF stop_reason = NoneStr THEN "end_turn" ELSE stop_reason
    IN IF sr = "end_turn" THEN "stop"
       ELSE IF sr = "tool_use" THEN "tool_calls"
       ELSE IF sr = "max_tokens" THEN "length"
       ELSE "stop"

GetOrZero(n) == IF n = NoneInt THEN 0 ELSE n

ParseResponse(data) ==
    LET content_text == TextsOf(data.content, 1)
    IN [content |-> IF content_text # <<>> THEN JoinLines(content_text, 1) ELSE NoneStr,
        tool_calls |-> ToolCallsOf(data.content, 1),
        finish_reason |-> FinishReason(data.stop_reason),
        hasUsage |-> data.hasUsage,
        prompt_tokens |-> IF data.hasUsage THEN GetOrZero(data.input_tokens) ELSE 0,
        completion_tokens |-> IF data.hasUsage THEN GetOrZero(data.output_tokens) ELSE 0,
        total_tokens |-> IF data.hasUsage
                         THEN GetOrZero(data.input_tokens) + GetOrZero(data.output_tokens)
                         ELSE 0]

(***************************************************************************)
(* chat() (claude_code_provider.py, lines 71-104).                         *)
(***************************************************************************)
DefaultMaxTokens == 4096
DefaultTemperature == "0.7"

\* a vendor error body of n characters
ErrorText(n) == [i \in 1..n |-> ToString(i % 10)]

Reply(kind, status, text, data) ==
    [kind |-> kind, status |-> status, text |-> text, data |-> data]

EmptyResponse == WireResponse(<<>>, NoneStr, FALSE, NoneInt, NoneInt)
InvalidJson == [EmptyResponse EXCEPT !.t = "invalid"]
NoReply == Reply("none", 0, <<>>, EmptyResponse)

ChatReplies ==
    { Reply("transport", 0, <<>>, EmptyResponse),
      Reply("http", HTTP_OK, <<>>,
            WireResponse(<<TextBlock(Str("hello")),
                           ToolUseBlock("t2", "ReadFile", Val("obj", "{\"x\":1}"))>>,
                         "tool_use", TRUE, 3, 4)),
      Reply("http", HTTP_OK, <<>>, InvalidJson),
      Reply("http", HTTP_UNAUTHORIZED, ErrorText(3), EmptyResponse),
      Reply("http", HTTP_UNAUTHORIZED, ErrorText(ErrorBodyLimit + 1), EmptyResponse),
      Reply("http", ServerErrorStatus, ErrorText(ErrorBodyLimit), EmptyResponse),
      Reply("http", ServerErrorStatus, ErrorText(ErrorBodyLimit + 1), EmptyResponse) }

ChatInputs ==
    { [messages |-> <<Msg("system", Str("Be concise.")), Msg("user", Str("hi")),
                      AssistantMsg(Str(""), <<ToolCall("t1", "read_file", Str("not json"))>>),
                      ToolMsg(Str("t1"), Str("ok"))>>,
       tools |-> <<Tool(Str("read_file"), Missing, Missing)>>,
       model |-> <<"p", "/", "m">>],
      [messages |-> <<Msg("user", Missing)>>, tools |-> <<>>, model |-> <<>>] }

\* error_text[:500]
Truncate_Unbounded(error_text) == error_text

Truncate(error_text) ==
    SubSeq(error_text, 1, IF Len(error_text) < ErrorBodyLimit THEN Len(error_text)
                          ELSE ErrorBodyLimit)

Result(finish_reason, kind, status, text, parsed) ==
    [finish_reason |-> finish_reason, kind |-> kind, status |-> status,
     text |-> text, parsed |-> parsed]

NoResult == Result("none", "none", 0, <<>>, ParseResponse(EmptyResponse))
\* line 104
ExceptionResult == Result("error", "exception", 0, <<>>, ParseResponse(EmptyResponse))

\* lines 93-104, given the response the call ends with
ChatResult(reply) ==
    IF reply.kind = "transport" THEN ExceptionResult
    ELSE IF reply.status # HTTP_OK
    THEN Result("error", "api_error", reply.status, Truncate(reply.text),
                ParseResponse(EmptyResponse))
    ELSE IF reply.data.t = "invalid" THEN ExceptionResult
    ELSE Result(ParseResponse(reply.data).finish_reason, "parsed", reply.status, <<>>,
                ParseResponse(reply.data))

\* ClaudeCodeProvider._refresh_token, line 51
ProviderRefreshToken_Never(new_token, current_token) == FALSE

ProviderRefreshToken(new_token, current_token) ==
    Truthy(new_token) /\ new_token # current_token

Request(token, body) == [token |-> token, body |-> body]

IdleCall ==
    [pc |-> "idle", sent |-> <<>>, statuses |-> <<>>, reply |-> NoReply,
     new_token |-> NoneStr, nres |-> 0, result |-> NoResult,
     body |-> BuildBody(<<>>, <<>>, <<>>, DefaultMaxTokens, DefaultTemperature)]

InFlight == {c \in Calls : call[c].pc \in {"await1", "resolving", "await2"}}

\* get_claude_code_token is synchronous: while one chat() runs it, the event
\* loop runs no other coroutine
LoopFree(c) == \A d \in Calls \ {c} : call[d].pc # "resolving"

\* chat, lines 79-87: build the body (outside the try) and send the first request
ChatStart(c, input) ==
    /\ Settled
    /\ call[c].pc = "idle"
    /\ Cardinality(InFlight) < maxInFlight
    /\ LoopFree(c)
    /\ LET body == BuildBody(input.messages, input.tools, ResolveModel(input.model),
                             DefaultMaxTokens, DefaultTemperature)
       IN call' = [call EXCEPT ![c] =
            IF body.raised
            THEN [@ EXCEPT !.pc = "raised", !.body = body]
            ELSE [@ EXCEPT !.pc = "await1", !.body = body,
                           !.sent = <<Request(oauth_token, body)>>]]
    /\ UNCHANGED <<translation, last, system, keychain, credsFile, now, issued, oauth_token, maxInFlight, res>>

\* the first response (or a transport failure) arrives: lines 87-104
ChatResponds1(c, reply) ==
    /\ Settled
    /\ call[c].pc = "await1"
    /\ LoopFree(c)
    /\ call' = [call EXCEPT ![c] =
            IF reply.kind = "http" /\ reply.status = HTTP_UNAUTHORIZED
            THEN [@ EXCEPT !.pc = "resolving", !.reply = reply,
                           !.statuses = Append(@, reply.status), !.nres = @ + 1]
            ELSE [@ EXCEPT !.pc = "done", !.reply = reply,
                           !.statuses = IF reply.kind = "http"
                                        THEN Append(@, reply.status) ELSE @,
                           !.result = ChatResult(reply)]]
    /\ UNCHANGED <<translation, last, system, keychain, credsFile, now, issued, oauth_token, maxInFlight, res>>

\* _refresh_token, lines 50-56, then line 91 or lines 93-99
ChatReresolved(c) ==
    /\ Settled
    /\ call[c].pc = "resolving"
    /\ res[c].pc \in {"done", "raised"}
    /\ LET new_token == res[c].result
       IN IF res[c].pc = "raised"
          THEN /\ oauth_token' = oauth_token
               /\ call' = [call EXCEPT ![c] =
                    [@ EXCEPT !.pc = "done", !.result = ExceptionResult]]
          ELSE IF ProviderRefreshToken(new_token, oauth_token)
          THEN /\ oauth_token' = new_token
               /\ call' = [call EXCEPT ![c] =
                    [@ EXCEPT !.pc = "await2", !.new_token = new_token,
                              !.sent = Append(@, Request(new_token, call[c].body))]]
          ELSE /\ oauth_token' = oauth_token
               /\ call' = [call EXCEPT ![c] =
                    [@ EXCEPT !.pc = "done", !.new_token = new_token,
                              !.result = ChatResult(call[c].reply)]]
    /\ res' = [res EXCEPT ![c] = IdleRes]
    /\ UNCHANGED <<translation, last, system, keychain, credsFile, now, issued, maxInFlight>>

\* the response to the retry arrives: lines 91-104
ChatResponds2(c, reply) ==
    /\ Settled
    /\ call[c].pc = "await2"
    /\ LoopFree(c)
    /\ call' = [call EXCEPT ![c] =
            [@ EXCEPT !.pc = "done", !.reply = reply,
                      !.statuses = IF reply.kind = "http"
                                   THEN Append(@, reply.status) ELSE @,
                      !.result = ChatResult(reply)]]
    /\ UNCHANGED <<translation, last, system, keychain, credsFile, now, issued, oauth_token, maxInFlight, res>>

\* the caller takes the response (or the exception) and may call again
ChatReturn(c) ==
    /\ call[c].pc \in {"done", "raised"}
    /\ call' = [call EXCEPT ![c] = IdleCall]
    /\ UNCHANGED <<translation, last, system, keychain, credsFile, now, issued, oauth_token, maxInFlight, res>>

\* no translator function has been applied
NoTranslation == [op |-> "none"]

(***************************************************************************)
(* Specifications.                                                         *)
(***************************************************************************)
InitWith(inFlight, docs) ==
    /\ system \in Systems
    /\ \E d \in docs :
         /\ keychain = IF StorageType(system) = "keychain" THEN d ELSE OtherStoreDoc
         /\ credsFile = IF StorageType(system) = "file" THEN d ELSE OtherStoreDoc
    /\ now = Now0
    /\ issued = 0
    /\ oauth_token = "T0"
    /\ maxInFlight = inFlight
    /\ res = [p \in Resolvers |-> IdleRes]
    /\ call = [c \in Calls |-> IdleCall]
    /\ last = NoLast
    /\ translation = NoTranslation

Init == InitWith(Cardinality(Calls), ChatDocs)
InitSerial == InitWith(1, ChatDocs)
InitResolve == InitWith(0, InitialDocs)

\* the steps of a resolution p
Resolve(p) ==
    \/ \E readOk \in BOOLEAN : ResolveRead(p, readOk)
    \/ \E x \in Exchanges : RefreshFails(p, x)
    \/ \E x \in Exchanges : RefreshGranted(p, x)
    \/ \E o \in FileWriteOutcomes : RefreshSavesFile(p, o)
    \/ \E o \in DeleteOutcomes : RefreshDeletesKeychain(p, o)
    \/ \E o \in AddOutcomes : KeychainAdds(p, o)

\* chat() invocations on one provider, each running its re-resolution inline
Next ==
    \/ \E c \in Calls, input \in ChatInputs : ChatStart(c, input)
    \/ \E c \in Calls, reply \in ChatReplies : ChatResponds1(c, reply)
    \/ \E c \in Calls : Resolve(c)
    \/ \E c \in Calls : ChatReresolved(c)
    \/ \E c \in Calls, reply \in ChatReplies : ChatResponds2(c, reply)
    \/ \E c \in Calls : ChatReturn(c)
    \/ Tick

\* get_claude_code_token() called directly, one call after the other
NextResolve ==
    \/ \E p \in Sequential : Resolve(p)
    \/ \E p \in Sequential : ResolveReturn(p)
    \/ Tick

\* get_claude_code_token() called directly by threads or processes that
\* overlap, within one reading of the clock
NextOverlap ==
    \/ \E p \in Standalone : Resolve(p)
    \/ \E p \in Standalone : ResolveReturn(p)

\* chat() invocations may overlap at their awaits
Spec == Init /\ [][Next]_vars
\* the caller awaits each chat() before starting the next
SpecSerial == InitSerial /\ [][Next]_vars
\* resolutions alone, one at a time
SpecResolve == InitResolve /\ [][NextResolve]_vars
\* resolutions alone, overlapping
SpecOverlap == InitResolve /\ [][NextOverlap]_vars

(***************************************************************************)
(* Properties of a resolution (SpecResolve).                               *)
(***************************************************************************)
Finished(p) == res[p].pc = "done"
ReadDict(p) == res[p].orig.shape = "dict"
StoredOauth(p) == OauthOf(res[p].orig)
\* the refresh call got a 200 whose JSON body carries the grant
Granted(x) == x.kind = "http" /\ x.status = HTTP_OK /\ x.body.t = "dict"
\* the refresh call got a non-200 status or failed in transport
Refused(x) == x.kind = "transport" \/ (x.kind = "http" /\ x.status # HTTP_OK)
ExpiresInOr3600(body) == IF body.expires_in = NoneInt THEN 3600 ELSE body.expires_in

\* C1: a resolution that read a document whose expiresAt is more than 300000 ms
\* after the time of the expiry check, and whose accessToken is present,
\* returns exactly that accessToken, issues no refresh call and writes nothing.
C1_ValidTokenNoRefresh ==
    \A p \in Resolvers :
        ( /\ Finished(p) /\ ReadDict(p)
          /\ StoredOauth(p).expiresAt # NoneInt
          /\ StoredOauth(p).expiresAt > res[p].checkNow + 300000
          /\ Truthy(StoredOauth(p).accessToken) )
        => /\ res[p].result = StoredOauth(p).accessToken
           /\ res[p].http = 0
           /\ res[p].writes = 0
           /\ StoreContent(res[p].storage) = res[p].orig

\* the token is valid by one millisecond and is returned
C1_Witness ==
    \E p \in Resolvers :
        /\ Finished(p) /\ ReadDict(p)
        /\ StoredOauth(p).expiresAt = res[p].checkNow + 300000 + 1
        /\ res[p].result = "T0"
        /\ res[p].http = 0

\* C2: when the document read is expired (check time + 300000 >= expiresAt) or
\* has no expiresAt, and has a refresh token, the step that receives a 200
\* grant sets the record's expiresAt to now + expires_in*1000 (3600 s when the
\* grant names none), and the resolution returns the grant's access_token,
\* not the stored one; a write that succeeds stores that record.
C2_GrantStep(p) ==
    ( /\ res[p].pc = "refreshing" /\ res'[p].pc = "saving"
      /\ Granted(res'[p].exchange)
      /\ ( \/ StoredOauth(p).expiresAt = NoneInt
           \/ res[p].checkNow + 300000 >= StoredOauth(p).expiresAt )
      /\ Truthy(StoredOauth(p).refreshToken) )
    => /\ res'[p].data.oauth.expiresAt
            = now + ExpiresInOr3600(res'[p].exchange.body) * 1000
       /\ res'[p].data.oauth.accessToken = res'[p].exchange.body.access_token

C2_Returned(p) ==
    ( res[p].pc # "done" /\ res'[p].pc = "done" /\ Granted(res'[p].exchange) )
    => /\ res'[p].result = res'[p].exchange.body.access_token
       /\ res'[p].result # StoredOauth(p).accessToken
       /\ res'[p].saved = "TRUE" => StoreContent(res[p].storage)' = res'[p].data

C2_RefreshUpdatesRecord ==
    [][\A p \in Resolvers : C2_GrantStep(p) /\ C2_Returned(p)]_vars

\* a grant arrived after the clock moved, and its token was returned
C2_Witness ==
    \E p \in Resolvers :
        /\ Finished(p) /\ Granted(res[p].exchange)
        /\ res[p].checkNow < now
        /\ res[p].data.oauth.expiresAt = now + 3600 * 1000
        /\ res[p].result = "T1"
        /\ StoreContent(res[p].storage) = res[p].data

\* C3: a document with no refresh token and an expired or absent expiresAt
\* resolves to None with no HTTP call and no store write, whatever accessToken
\* it holds.
C3_UnrefreshableIsUnavailable ==
    \A p \in Resolvers :
        ( /\ Finished(p) /\ ReadDict(p)
          /\ StoredOauth(p).refreshToken \in {NoneStr, ""}
          /\ ( \/ StoredOauth(p).expiresAt = NoneInt
               \/ res[p].checkNow + 300000 >= StoredOauth(p).expiresAt ) )
        => /\ res[p].result = NoneStr
           /\ res[p].http = 0
           /\ res[p].writes = 0
           /\ StoreContent(res[p].storage) = res[p].orig

\* an access token is stored, and still nothing is returned
C3_Witness ==
    \E p \in Resolvers :
        /\ Finished(p) /\ ReadDict(p)
        /\ StoredOauth(p).refreshToken = NoneStr
        /\ StoredOauth(p).accessToken = "T0"
        /\ res[p].checkNow + 300000 >= StoredOauth(p).expiresAt
        /\ res[p].result = NoneStr

\* C4: the step in which the refresh call comes back with a non-200 status or
\* a transport failure ends the resolution with None and writes nothing: both
\* stores hold what they held.
C4_RefusedStep(p) ==
    ( res[p].pc = "refreshing" /\ res'[p].pc # "refreshing" /\ Refused(res'[p].exchange) )
    => /\ res'[p].pc = "done"
       /\ res'[p].result = NoneStr
       /\ res'[p].writes = 0
       /\ keychain' = keychain
       /\ credsFile' = credsFile

C4_RefreshFailureLeavesStore ==
    [][\A p \in Resolvers : C4_RefusedStep(p)]_vars

\* a refused refresh: the stale token is stored and is not returned
C4_Witness ==
    \E p \in Resolvers :
        /\ Finished(p) /\ Refused(res[p].exchange)
        /\ res[p].exchange.status = HTTP_UNAUTHORIZED
        /\ StoredOauth(p).accessToken = "T0"
        /\ res[p].result = NoneStr
        /\ StoreContent(res[p].storage) = res[p].orig

\* C5: a resolution whose refresh was granted and whose write-back failed
\* (file or keychain) still returns the grant's access token.
C5_PersistFailureStillResolves ==
    \A p \in Resolvers :
        ( Finished(p) /\ Granted(res[p].exchange) /\ res[p].saved = "FALSE" )
        => /\ res[p].result = res[p].exchange.body.access_token
           /\ res[p].result # NoneStr

\* the keychain add failed after the delete, and the new token is returned
C5_Witness ==
    \E p \in Resolvers :
        /\ Finished(p) /\ Granted(res[p].exchange)
        /\ res[p].saved = "FALSE"
        /\ res[p].storage = "keychain"
        /\ keychain # res[p].data
        /\ res[p].result = "T1"

(***************************************************************************)
(* Properties of chat().                                                   *)
(***************************************************************************)
Got401First(c) == Len(call[c].statuses) >= 1 /\ call[c].statuses[1] = 401
PastReresolution(c) == call[c].pc \in {"await2", "done"} /\ call[c].nres = 1
\* the re-resolution produced a token other than the one the first request carried
ReresolvedDiffers(c) ==
    /\ PastReresolution(c)
    /\ call[c].new_token \notin {NoneStr, ""}
    /\ call[c].new_token # call[c].sent[1].token

\* C6 (one chat() at a time): a 401 on the first request leads to exactly one
\* re-resolution; if it yields a token other than the one just sent, the same
\* body is sent exactly once more with the new token; a 401 on that retry
\* ends the call with finish reason "error", with two requests and one
\* re-resolution in all.
C6_OneRetryOn401 ==
    \A c \in Calls :
        /\ call[c].nres = (IF Got401First(c) THEN 1 ELSE 0)
        /\ Len(call[c].sent) <= 2
        /\ ReresolvedDiffers(c)
             => /\ Len(call[c].sent) = 2
                /\ call[c].sent[2].token = call[c].new_token
                /\ call[c].sent[2].body = call[c].sent[1].body
        /\ ( call[c].pc = "done" /\ Len(call[c].statuses) = 2
             /\ call[c].statuses[2] = 401 )
             => /\ call[c].result.finish_reason = "error"
                /\ call[c].result.status = 401
                /\ Len(call[c].sent) = 2
                /\ call[c].nres = 1
                /\ res[c].pc = "idle"

\* two 401s in a row: retried once with the refreshed token, then "error"
C6_Witness ==
    \E c \in Calls :
        /\ call[c].pc = "done"
        /\ call[c].statuses = <<401, 401>>
        /\ call[c].sent[1].token = "T0"
        /\ call[c].sent[2].token = "T1"
        /\ call[c].result.finish_reason = "error"

\* C7: chat() never lets an exception reach its caller.
C7_NoExceptionEscapes ==
    \A c \in Calls : call[c].pc # "raised"

\* C8: a call that ends on a status other than 200 returns finish reason
\* "error" with that status and the first 500 characters of the vendor body
\* (the whole body when it is shorter); a call whose first response is not a
\* 401 re-resolves nothing and sends one request, and the step that takes
\* such a response changes neither the provider's token, the stores, the
\* resolutions nor the vendor's grants.
C8_ErrorResult(c) ==
    ( call[c].pc = "done" /\ call[c].reply.kind = "http" /\ call[c].reply.status # 200 )
    => /\ call[c].result.finish_reason = "error"
       /\ call[c].result.status = call[c].reply.status
       /\ Len(call[c].result.text) <= 500
       /\ Len(call[c].result.text) <= Len(call[c].reply.text)
       /\ Len(call[c].reply.text) <= 500 => call[c].result.text = call[c].reply.text
       /\ \A i \in 1..Len(call[c].result.text) :
              call[c].result.text[i] = call[c].reply.text[i]
       /\ Len(call[c].reply.text) > 500 => Len(call[c].result.text) = 500

C8_NoReresolution(c) ==
    ( call[c].pc = "done" /\ ~Got401First(c) )
    => /\ call[c].nres = 0
       /\ Len(call[c].sent) = 1
       /\ res[c] = IdleRes

C8_FirstResponseStep(c) ==
    ( call[c].pc = "await1" /\ call'[c].pc = "done" )
    => UNCHANGED <<oauth_token, keychain, credsFile, res, issued>>

C8_OtherStatusIsError ==
    /\ [](\A c \in Calls : C8_ErrorResult(c) /\ C8_NoReresolution(c))
    /\ [][\A c \in Calls : C8_FirstResponseStep(c)]_vars

\* a 500 with a body of 501 characters: "error", 500 characters kept
C8_Witness ==
    \E c \in Calls :
        /\ call[c].pc = "done"
        /\ call[c].statuses = <<ServerErrorStatus>>
        /\ Len(call[c].reply.text) = 501
        /\ Len(call[c].result.text) = 500
        /\ call[c].result.finish_reason = "error"
        /\ call[c].nres = 0

\* C9: with chat() invocations overlapping, every invocation that got a 401
\* and whose re-resolved token differs from the token it sent retries exactly
\* once with the new token.
C9_EachCallRetries ==
    \A c \in Calls :
        ReresolvedDiffers(c)
          => /\ Len(call[c].sent) = 2
             /\ call[c].sent[2].token = call[c].new_token

\* C10: after a write attempt, successful or not, the store holds the whole
\* previous document or the whole new one, and never no entry.
C10_WriteIsAtomic ==
    \A p \in Resolvers :
        ( Finished(p) /\ res[p].writes > 0 )
        => /\ StoreContent(res[p].storage) \in {res[p].before, res[p].data}
           /\ StoreContent(res[p].storage).shape # "absent"

(***************************************************************************)
(* Records without an access token, unreadable stores, and the store a     *)
(* resolution writes (SpecResolve).                                        *)
(***************************************************************************)
NoAccessToken(p) == ReadDict(p) /\ StoredOauth(p).accessToken = NoneStr
\* the stored record is expired (or has no expiresAt) and has a refresh token
Refreshable(p) ==
    /\ Truthy(StoredOauth(p).refreshToken)
    /\ ( \/ StoredOauth(p).expiresAt = NoneInt
         \/ res[p].checkNow + 300000 >= StoredOauth(p).expiresAt )

\* C15 as stated: a document lacking accessToken resolves to None whatever its
\* refreshToken and expiresAt are.
C15_NoAccessTokenIsUnavailable ==
    \A p \in Resolvers :
        ( Finished(p) /\ NoAccessToken(p) ) => res[p].result = NoneStr

\* C15 amended: a document lacking accessToken resolves to None, with no HTTP
\* call when its record is not expired or has no refresh token, unless the
\* record is expired (or has no expiresAt), has a refresh token and the
\* refresh is granted; then the grant's access token is returned.
C15_NoAccessTokenNeedsGrant ==
    \A p \in Resolvers :
        ( Finished(p) /\ NoAccessToken(p) )
        => /\ ~Refreshable(p) => res[p].http = 0 /\ res[p].result = NoneStr
           /\ ( Refreshable(p) /\ ~Granted(res[p].exchange) ) => res[p].result = NoneStr
           /\ ( Refreshable(p) /\ Granted(res[p].exchange) )
                => /\ res[p].result = res[p].exchange.body.access_token
                   /\ res[p].result # NoneStr

\* no access token stored, expired, refreshed: the new token is returned
C15_Witness ==
    \E p \in Resolvers :
        /\ Finished(p) /\ NoAccessToken(p)
        /\ StoredOauth(p).refreshToken = "R0"
        /\ Granted(res[p].exchange)
        /\ res[p].result = "T1"

\* no entry or file, text that is not JSON, JSON that is not an object, or
\* an object without the claudeAiOauth record
Malformed(doc) ==
    \/ doc.shape \in {"absent", "unparseable", "notdict"}
    \/ doc.shape = "dict" /\ ~doc.hasOauth

\* C16: reading a store with no entry or file, or with content that is not
\* JSON, not a JSON object or an object without the record, raises nothing; the resolution returns None,
\* issues no refresh call and writes nothing, and both stores hold what they
\* held.
C16_Unreadable(p) ==
    ( Finished(p) /\ Malformed(res[p].orig) )
    => /\ res[p].result = NoneStr
       /\ res[p].http = 0
       /\ res[p].writes = 0
       /\ StoreContent(res[p].storage) = res[p].orig

C16_ReadStep(p) ==
    ( res[p].pc = "idle" /\ res'[p].pc # "idle" /\ Malformed(StoreContent(StorageType(system))) )
    => /\ res'[p].pc = "done"
       /\ UNCHANGED <<keychain, credsFile, issued>>

C16_MalformedStoreIsUnavailable ==
    /\ [](\A p \in Resolvers : res[p].pc # "raised" /\ C16_Unreadable(p))
    /\ [][\A p \in Resolvers : C16_ReadStep(p)]_vars

\* the credentials file holds text that is not JSON, and None is returned
C16_Witness ==
    \E p \in Resolvers :
        /\ Finished(p)
        /\ res[p].storage = "file"
        /\ res[p].orig = Unparseable
        /\ credsFile = Unparseable
        /\ res[p].result = NoneStr

\* C17: a resolution saves to the store it read from: no step of a
\* resolution on macOS changes the credentials file, no step of a resolution
\* on Linux changes the keychain, and a resolution's store never changes
\* after the read.
C17_OtherStoreStep ==
    /\ system = "Darwin" => credsFile' = credsFile
    /\ system = "Linux" => keychain' = keychain
    /\ \A p \in Resolvers :
          /\ res[p].pc \in {"refreshing", "saving", "adding"}
               => res'[p].storage = res[p].storage
          /\ res'[p].writes > res[p].writes
               => /\ res[p].storage = StorageType(system)
                  /\ res[p].storage = "keychain" => credsFile' = credsFile
                  /\ res[p].storage = "file" => keychain' = keychain

C17_SavesWhereItRead ==
    [][C17_OtherStoreStep]_vars

\* read from the keychain, saved to the keychain, the file as it was
C17_Witness ==
    \E p \in Resolvers :
        /\ Finished(p)
        /\ res[p].storage = "keychain"
        /\ res[p].saved = "TRUE"
        /\ keychain = res[p].data
        /\ keychain # res[p].orig
        /\ credsFile = OtherStoreDoc

(***************************************************************************)
(* Consecutive and overlapping resolutions (SpecResolve).                  *)
(***************************************************************************)
\* the resolution that returned last was granted a refresh and failed to
\* save it; no other resolution has been granted one, so nothing else has
\* written; and p has read the store as that resolution left it
ReadAfterFailedSave(p) ==
    /\ last.failed
    /\ issued = 1
    /\ res[p].pc \in {"refreshing", "done"}
    /\ res[p].orig = last.store

\* C18: the resolution that follows one whose refresh was granted and whose
\* save failed, and that reads the store as that one left it, reaches the
\* refresh step again: it issues a refresh request with the refresh token the
\* earlier resolution had read.
C18_NextResolutionRefreshesAgain ==
    \A p \in Standalone :
        ReadAfterFailedSave(p)
        => /\ res[p].http = 1
           /\ res[p].rt = last.rt

\* the step in which p's save succeeds
SaveSucceeds(p) == res[p].saved = "n/a" /\ res'[p].saved = "TRUE"

\* C19: nothing serializes resolutions.  A resolution can start while others
\* are under way; resolutions that read the same expired record each have
\* their own refresh request out, carrying that record's refresh token; and
\* a save that succeeds leaves the store holding the saving resolution's own
\* document, whatever the store held before.
C19_Unserialized ==
    /\ [](\A p, q \in Standalone :
            ( Settled /\ res[p].pc = "idle" /\ res[q].pc # "idle" )
            => ENABLED ResolveRead(p, TRUE))
    /\ [](\A p \in Resolvers :
            res[p].pc = "refreshing"
            => /\ res[p].http = 1
               /\ res[p].rt = StoredOauth(p).refreshToken)
    /\ [][\A p \in Resolvers :
            SaveSucceeds(p)
            => /\ StoreContent(res[p].storage)' = res[p].data
               /\ res[p].data.oauth.accessToken = res[p].exchange.body.access_token]_vars

\* a resolution read the record while another's refresh of it was in flight,
\* was granted T1 before the other was granted T2, and saved after it: the
\* store held T2 and now holds T1
C19_Witness ==
    \E p \in Resolvers :
        /\ Finished(p)
        /\ res[p].overlapped
        /\ res[p].saved = "TRUE"
        /\ issued = 2
        /\ res[p].before.shape = "dict"
        /\ res[p].before.oauth.accessToken = "T2"
        /\ res[p].result = "T1"
        /\ StoreContent(res[p].storage) = res[p].data
        /\ StoreContent(res[p].storage).oauth.accessToken = "T1"

(***************************************************************************)
(* What a refresh changes in the document (SpecResolve).                   *)
(***************************************************************************)
\* where the words of s start: a character that is not whitespace, at the
\* start of s or after whitespace
WordStarts(s) ==
    { i \in 1..Len(s) : ~IsSpace(s[i]) /\ (i = 1 \/ IsSpace(s[i - 1])) }
\* where the word starting at a ends
WordEnd(s, a) ==
    CHOOSE b \in a..Len(s) :
        /\ \A k \in a..b : ~IsSpace(s[k])
        /\ b = Len(s) \/ IsSpace(s[b + 1])
\* words are the maximal runs of s without whitespace, in order
IsWordsOf(words, s) ==
    /\ Len(words) = Cardinality(WordStarts(s))
    /\ \A a \in WordStarts(s) :
          words[Cardinality({x \in WordStarts(s) : x <= a})] = SubSeq(s, a, WordEnd(s, a))

\* C20: the step that applies a granted refresh makes the document equal to
\* the one read except, in the nested record, accessToken (the response's
\* access_token), refreshToken (the response's refresh_token, or the prior
\* one when the response has none), expiresAt (now + expires_in*1000, 3600 s
\* when absent) and, only when the response has a scope, scopes (the scope
\* split on whitespace); the top-level keys and the other nested fields are
\* those read.  A save that succeeds writes that document.
C20_GrantStep(p) ==
    ( res[p].pc = "refreshing" /\ res'[p].pc = "saving" )
    => LET read == res[p].orig
           written == res'[p].data
           body == res'[p].exchange.body
       IN /\ Granted(res'[p].exchange)
          /\ DOMAIN written = DOMAIN read
          /\ \A k \in DOMAIN read \ {"oauth", "hasOauth"} : written[k] = read[k]
          /\ written.hasOauth
          /\ DOMAIN written.oauth = DOMAIN read.oauth
          /\ \A k \in DOMAIN read.oauth \ {"accessToken", "refreshToken", "expiresAt", "scopes"} :
                written.oauth[k] = read.oauth[k]
          /\ written.oauth.accessToken = body.access_token
          /\ written.oauth.refreshToken =
                (IF body.refresh_token = NoneStr THEN read.oauth.refreshToken
                 ELSE body.refresh_token)
          /\ written.oauth.expiresAt = now + ExpiresInOr3600(body) * 1000
          /\ IF body.hasScope
             THEN IsWordsOf(written.oauth.scopes, body.scope)
             ELSE written.oauth.scopes = read.oauth.scopes

C20_SaveStep(p) ==
    /\ res[p].pc \in {"saving", "adding"} => res'[p].data = res[p].data
    /\ SaveSucceeds(p) => StoreContent(res[p].storage)' = res[p].data

C20_RefreshChangesFourFields ==
    [][\A p \in Resolvers : C20_GrantStep(p) /\ C20_SaveStep(p)]_vars

\* a grant with a scope of two words was saved: tokens, expiry and scopes are
\* new, the rest of the document is as it was read
C20_Witness ==
    \E p \in Resolvers :
        /\ Finished(p) /\ Granted(res[p].exchange)
        /\ res[p].saved = "TRUE"
        /\ res[p].exchange.body.hasScope
        /\ StoreContent(res[p].storage) = res[p].data
        /\ res[p].data.oauth.scopes = << <<"u">>, <<"m">> >>
        /\ res[p].data.oauth.refreshToken = "R1"
        /\ res[p].data.oauth.subscriptionType = "max"
        /\ res[p].data.extra = "x"
        /\ res[p].orig.oauth.scopes = << <<"u">> >>

(***************************************************************************)
(* The translator on its own (SpecTranslate): _build_body,                 *)
(* _convert_assistant_msg and _parse_response applied to inputs drawn from *)
(* the sets below.                                                         *)
(***************************************************************************)
MaxMessages == 3

\* argument strings of a tool call: JSON objects, JSON that is not an
\* object, and text that is not JSON
ArgumentStrings == {"{\"x\":1}", "123", "[1]", "null", "not json"}
ArgumentObjects == {Val("obj", "{\"x\":1}"), Val("obj", "{}")}
ToolNames == {"read_file", "ReadFile", "write_file", "exec"}
CallIds == {"t1", "t2"}

SampleMessages ==
    { Msg("system", Str("Be concise.")),
      Msg("system", Str("Use metric units.")),
      Msg("system", Val("list", "[{\"type\":\"text\",\"text\":\"Be brief.\"}]")),
      Msg("user", Str("hi")),
      ToolMsg(Str("t1"), Str("ok")),
      AssistantMsg(Str("ok"), <<ToolCall("t1", "exec", Val("obj", "{\"x\":1}")),
                                ToolCall("t2", "read_file", Str("not json"))>>) }
    \cup { AssistantMsg(Str(""), <<ToolCall("t1", "read_file", Str(a))>>) :
             a \in ArgumentStrings }

MessageLists == UNION { [1..n -> SampleMessages] : n \in 1..MaxMessages }

SampleToolCalls ==
    { ToolCall(id, name, args) : id \in CallIds, name \in ToolNames, args \in ArgumentObjects }

StopReasons ==
    {"end_turn", "tool_use", "max_tokens", "stop_sequence", "refusal", "error", "", NoneStr}

SampleContents ==
    { <<>>,
      <<TextBlock(Str("hello"))>>,
      <<TextBlock(Str("hello")), ToolUseBlock("t2", "ReadFile", Val("obj", "{\"x\":1}"))>> }

SampleResponses ==
    { WireResponse(content, sr, usage, IF usage THEN 3 ELSE NoneInt, IF usage THEN 4 ELSE NoneInt) :
        content \in SampleContents, sr \in StopReasons, usage \in BOOLEAN }

providerVars ==
    <<system, keychain, credsFile, now, issued, oauth_token, maxInFlight, res, call, last>>

\* _build_body(messages, None, model, max_tokens, temperature)
Build(messages) ==
    /\ translation = NoTranslation
    /\ translation' = [op |-> "build", input |-> messages,
                       output |-> BuildBody(messages, <<>>, DefaultModel,
                                            DefaultMaxTokens, DefaultTemperature)]
    /\ UNCHANGED providerVars

\* _convert_assistant_msg on a message with one tool call, and _parse_response
\* on a response whose content is the blocks it produced
RoundTrip(tool_call) ==
    /\ translation = NoTranslation
    /\ LET wire == ConvertAssistantMsg(AssistantMsg(Missing, <<tool_call>>))
           parsed == ParseResponse(WireResponse(wire.blocks, "tool_use", FALSE,
                                                NoneInt, NoneInt))
       IN translation' = [op |-> "roundtrip", input |-> tool_call,
                          output |-> [wire |-> wire, parsed |-> parsed]]
    /\ UNCHANGED providerVars

\* _parse_response(data)
Parse(data) ==
    /\ translation = NoTranslation
    /\ translation' = [op |-> "parse", input |-> data, output |-> ParseResponse(data)]
    /\ UNCHANGED providerVars

\* the caller takes the result
Translated ==
    /\ translation # NoTranslation
    /\ translation' = NoTranslation
    /\ UNCHANGED providerVars

InitTranslate == InitWith(0, {NotFound}) /\ system = "Other"

NextTranslate ==
    \/ \E messages \in MessageLists : Build(messages)
    \/ \E tool_call \in SampleToolCalls : RoundTrip(tool_call)
    \/ \E data \in SampleResponses : Parse(data)
    \/ Translated

SpecTranslate == InitTranslate /\ [][NextTranslate]_vars

IsSystem(msg) == msg.role = "system"
NotSystem(msg) == msg.role # "system"
IsToolUse(block) == block.type = "tool_use"
Built == translation.op = "build" /\ ~translation.output.raised

\* C11: the system list of a built request is the prefix block followed by
\* one text block per system-role message of the input, in order, each
\* carrying that message's content: 1 + the number of system-role messages
\* in all; and no wire message has the role "system".
C11_SystemBlocks ==
    Built =>
        LET system_msgs == SelectSeq(translation.input, IsSystem)
            body == translation.output
        IN /\ Len(body.system) = 1 + Len(system_msgs)
           /\ body.system[1] = TextBlock(Str(CLAUDE_CODE_SYSTEM_PREFIX))
           /\ \A k \in 1..Len(system_msgs) :
                 k + 1 <= Len(body.system) => body.system[k + 1].text = system_msgs[k].content
           /\ \A i \in 1..Len(body.messages) : body.messages[i].role # "system"

\* C12: converting an assistant tool call with object arguments to a wire
\* tool_use block and parsing that block back gives a tool-call request with
\* the same id, name and arguments, for names in the allow-list map, names
\* outside it, and names equal to a wire name such as "ReadFile".
C12_ToolCallRoundTrip ==
    translation.op = "roundtrip" =>
        /\ Len(translation.output.parsed.tool_calls) = 1
        /\ translation.output.parsed.tool_calls[1].id = translation.input.id
        /\ translation.output.parsed.tool_calls[1].name = translation.input.name
        /\ translation.output.parsed.tool_calls[1].arguments = translation.input.arguments

\* the tool_use blocks of the wire message built from the i-th message that
\* is not a system message
ToolUsesOf(body, i) == SelectSeq(body.messages[i].blocks, IsToolUse)

\* C13: building a request does not fail on tool-call arguments given as a
\* string: the tool_use input is the parsed value when the string is JSON
\* and {"raw": <the string>} otherwise, and in both cases it is an object.
C13_StringArguments ==
    /\ translation.op = "build" => ~translation.output.raised
    /\ Built =>
        LET source == SelectSeq(translation.input, NotSystem)
            body == translation.output
        IN /\ Len(body.messages) = Len(source)
           /\ \A i \in 1..Len(source) :
                source[i].role = "assistant" =>
                  /\ Len(ToolUsesOf(body, i)) = Len(source[i].tool_calls)
                  /\ \A k \in 1..Len(source[i].tool_calls) :
                        LET args == source[i].tool_calls[k].arguments
                            input == ToolUsesOf(body, i)[k].input
                        IN args.t = "str" =>
                             /\ JsonLoads(args.v).ok => input = JsonLoads(args.v).value
                             /\ ~JsonLoads(args.v).ok => input = RawObject(args.v)
                             /\ input.t = "obj"

\* C14: _parse_response gives finish reason "stop" for stop_reason end_turn,
\* "tool_calls" for tool_use, "length" for max_tokens and "stop" for every
\* other stop_reason and for a response without one; never "error".
C14_StopReasonMap ==
    translation.op = "parse" =>
        LET sr == translation.input.stop_reason
            finish_reason == translation.output.finish_reason
        IN /\ sr = "end_turn" => finish_reason = "stop"
           /\ sr = "tool_use" => finish_reason = "tool_calls"
           /\ sr = "max_tokens" => finish_reason = "length"
           /\ sr \notin {"end_turn", "tool_use", "max_tokens"} => finish_reason = "stop"
           /\ finish_reason \in {"stop", "tool_calls", "length"}

\* a stop_reason outside the map, and one named "error", both give "stop"
C14_Witness ==
    /\ translation.op = "parse"
    /\ translation.input.stop_reason \in {"refusal", "error"}
    /\ translation.input.content # <<>>
    /\ translation.output.finish_reason = "stop"

(***************************************************************************)
(* Termination of chat() (SpecLive).  Every wait in chat() is bounded: the *)
(* chat request by httpx's timeout of 300 s, the refresh request by its    *)
(* timeout of 30 s, the keychain subprocesses by theirs; and the event     *)
(* loop resumes a coroutine whose await has completed.  So a step of a     *)
(* started invocation that is possible again and again is taken.           *)
(***************************************************************************)
\* the steps of invocation c after its start
CallStep(c) ==
    \/ \E reply \in ChatReplies : ChatResponds1(c, reply)
    \/ Resolve(c)
    \/ ChatReresolved(c)
    \/ \E reply \in ChatReplies : ChatResponds2(c, reply)
    \/ ChatReturn(c)

SpecLive == Init /\ [][Next]_vars /\ \A c \in Calls : SF_vars(CallStep(c))

Started(c) == call[c].pc # "idle"
\* the step in which c sends its second chat request
SendsRetry(c) == Len(call[c].sent) = 1 /\ Len(call'[c].sent) = 2

C21_Bounds(c) ==
    /\ call[c].pc # "raised"
    /\ Len(call[c].sent) <= 2
    /\ call[c].nres <= 1
    /\ res[c].http <= 1
    /\ res[c].pc # "idle" => call[c].nres = 1

C21_RetryStep(c) ==
    SendsRetry(c)
    => /\ call[c].statuses = <<HTTP_UNAUTHORIZED>>
       /\ call[c].nres = 1
       /\ Truthy(res[c].result)
       /\ res[c].result # oauth_token
       /\ call'[c].sent[2].token = res[c].result

C21_TokenStep ==
    oauth_token' # oauth_token
    => \E c \in Calls : SendsRetry(c) /\ oauth_token' = res[c].result

\* C21: every chat() invocation that is started returns a response (never an
\* exception), having sent at most two chat requests, re-resolved the token
\* at most once and issued at most one refresh call; the second request is
\* sent only after a 401 on the first and a re-resolution that gave a
\* non-empty token other than the provider's; no other step changes the
\* provider's token.
C21_ChatTerminates ==
    /\ [](\A c \in Calls : C21_Bounds(c))
    /\ [][C21_TokenStep /\ \A c \in Calls : C21_RetryStep(c)]_vars
    /\ \A c \in Calls : Started(c) ~> (call[c].pc = "done")
====
